---- MODULE Spec2Model ----
(***************************************************************************)
(* The NumberDialer widget of conrod (src/src/number_dialer.rs): the value *)
(* formatter, the hit test, the interaction state machine, the digit-level *)
(* value adjustment and the per-frame draw entry point that composes them. *)
(*                                                                         *)
(* Numbers.  A value of the generic numeric type T is an integer count of  *)
(* 1/One units (One = 10^Scale), i.e. a decimal fixed-point number.  An    *)
(* integer T holds only multiples of One; a floating T holds every count.  *)
(* The f64 intermediate of get_new_value is held in the same unit; the     *)
(* binary rounding error of (10f32).powf(p) (about 1e-9 relative) is below *)
(* the six decimals that to_string shows and is not modelled.  A `uint`     *)
(* subtraction that goes below zero wraps (the language of the source has  *)
(* no overflow check): the wrapped exponent is about 2^64, for which       *)
(* (10f32).powf gives +infinity.                                           *)
(* Strings are sequences of one-character strings.  Pixel coordinates are  *)
(* integers (every layout below has an even free width).                   *)
(***************************************************************************)
EXTENDS Integers, Sequences, FiniteSets

VARIABLES
    cfg,     \* the widget parameters the caller passes every frame
    state,   \* the State kept for the widget by the UIContext store
    value,   \* the caller's own variable, passed as `value` every frame
    last,    \* what the step just taken was: a frame's inputs and results, or none
    probe,   \* the arguments and result of a stand-alone is_over call
    call     \* the progress and results of a stand-alone formatter or adjustment call

vars == <<cfg, state, value, last, probe, call>>

----------------------------------------------------------------------------
(* Bounds of the model *)

\* largest `max` of the integer dialers
MaxInt == 12
\* magnitude of the negative `min` of the signed dialer
NegMin == 10
\* `max` of the fractional dialer, in hundredths
MaxFrac == 12
\* `max` of the integer dialer that shows one decimal place
MaxSmall == 3
\* number of pointer rows sampled inside the widget
NumRows == 2
\* a three-digit `max`, for the dialers drawn from in the stand-alone calls
BigMax == 105
\* largest slot index given to a stand-alone get_new_value call
MaxSlot == 7

----------------------------------------------------------------------------
(* The numeric type T *)

\* decimal places a value of T carries in the model
Scale == 2

RECURSIVE Pow(_, _)
Pow(b, n) == IF n <= 0 THEN 1 ELSE b * Pow(b, n - 1)

One == Pow(10, Scale)

Abs(n) == IF n < 0 THEN -n ELSE n

Min(S) == CHOOSE m \in S : \A n \in S : m <= n

Digit(d) == <<"0", "1", "2", "3", "4", "5", "6", "7", "8", "9">>[d + 1]

RECURSIVE NatToString(_)
NatToString(n) ==
    IF n < 10 THEN <<Digit(n)>> ELSE Append(NatToString(n \div 10), Digit(n % 10))

\* the `places` decimals of numerator `f` (f < 10^places), trailing zeros dropped
RECURSIVE FracToString(_, _)
FracToString(f, places) ==
    IF f = 0 \/ places = 0 THEN <<>>
    ELSE <<Digit(f \div Pow(10, places - 1))>>
         \o FracToString(f % Pow(10, places - 1), places - 1)

\* val.to_string(): an integer prints its digits; a float prints its integer
\* part and, only when the fraction is not zero, a point and the fraction
\* without trailing zeros ("3", "1.5", "0.12"); a negative value leads with '-'.
ToString(v) ==
    LET sign == IF v < 0 THEN <<"-">> ELSE <<>>
        ip == Abs(v) \div One
        fp == Abs(v) % One
    IN sign \o NatToString(ip)
            \o (IF fp = 0 THEN <<>> ELSE <<".">> \o FracToString(fp, Scale))

\* FromPrimitive::from_f64: an integer T drops the fraction (towards zero),
\* a floating T takes the number as it is.
FromF64(kind, x) ==
    IF kind = "int"
    THEN (IF x < 0 THEN -1 ELSE 1) * ((Abs(x) \div One) * One)
    ELSE x

\* utils::clamp
Clamp(n, start, end) ==
    IF n < start THEN start ELSE IF n > end THEN end ELSE n

\* utils::compare_f64s
CompareF64s(a, b) ==
    IF a < b THEN "Less" ELSE IF a > b THEN "Greater" ELSE "Equal"

----------------------------------------------------------------------------
(* Element and State *)

NoElem == [kind |-> "None", idx |-> 0, y |-> 0]
Rect == [kind |-> "Rect", idx |-> 0, y |-> 0]
LabelGlyphs == [kind |-> "LabelGlyphs", idx |-> 0, y |-> 0]
ValueGlyph(i, y) == [kind |-> "ValueGlyph", idx |-> i, y |-> y]

Normal == [tag |-> "Normal", elem |-> NoElem]
Highlighted(e) == [tag |-> "Highlighted", elem |-> e]
Clicked(e) == [tag |-> "Clicked", elem |-> e]

\* mouse_state::MouseState: the pointer position and the left button
MouseState(x, y, left) == [pos |-> [x |-> x, y |-> y], left |-> left]

----------------------------------------------------------------------------
(* Value formatter *)

\* chars().position(|ch| ch == '.'): the 0-based index of the first '.', -1 for None
DecimalPos(s) ==
    IF \E i \in 1..Len(s) : s[i] = "."
    THEN Min({i \in 1..Len(s) : s[i] = "."}) - 1
    ELSE -1

\* String::grow(n, '0') and String::from_char(n, '0')
Zeros(n) == [i \in 1..n |-> "0"]

\* String::truncate(n)
Truncate(s, n) == IF n < Len(s) THEN SubSeq(s, 1, n) ELSE s

\* the first match with desired_len one short (idx + precision)
DecimalPlacesOneShort(s, precision) ==
    LET idx == DecimalPos(s) IN
    IF idx = -1 /\ precision = 0 THEN s
    ELSE IF idx = -1 THEN s \o <<".">> \o Zeros(precision)
    ELSE IF precision = 0 THEN Truncate(s, idx)
    ELSE LET desired_len == idx + precision IN
         IF Len(s) > desired_len THEN Truncate(s, desired_len)
         ELSE IF Len(s) = desired_len THEN s
         ELSE s \o Zeros(desired_len - Len(s))

\* the first match of create_val_string: the decimal places
DecimalPlaces(s, precision) ==
    LET idx == DecimalPos(s) IN
    IF idx = -1 /\ precision = 0 THEN s
    ELSE IF idx = -1 THEN s \o <<".">> \o Zeros(precision)
    ELSE IF precision = 0 THEN Truncate(s, idx)
    ELSE LET desired_len == idx + precision + 1 IN
         IF Len(s) > desired_len THEN Truncate(s, desired_len)
         ELSE IF Len(s) = desired_len THEN s
         ELSE s \o Zeros(desired_len - Len(s))

\* create_val_string, on the text of val.to_string()
CreateValString(val, len, precision) ==
    LET val_string == DecimalPlaces(ToString(val), precision) IN
    IF Len(val_string) < len
    THEN Zeros(len - Len(val_string)) \o val_string
    ELSE val_string

----------------------------------------------------------------------------
(* Layout metrics and hit test *)

\* let font_size = 24u32 in draw
FontSize == 24
\* the builder's width: 128.0
Width == 128
\* the builder's height: 48.0
Height == 48

Point(x, y) == [x |-> x, y |-> y]

\* value_glyph_slot_width: (size as f64 * 0.75).floor()
ValueGlyphSlotWidth(size) == (size * 3) \div 4

\* label_string_and_dimensions: (label_w, label_h); the width is the sum of the
\* glyph advances of "<text>: " that label::width folds, given with the label
LabelDimensions(label) ==
    IF label.some THEN <<label.w, label.size>> ELSE <<0, 0>>

\* val_string_dimensions taking the width from the value font size and the
\* height from the label font size
ValStringDimensionsTwoSizes(font_size, label, val_string) ==
    LET size == IF label.some THEN label.size ELSE font_size
        slot_w == ValueGlyphSlotWidth(font_size)
    IN <<slot_w * Len(val_string), size>>

\* val_string_dimensions: (val_string_w, val_string_h)
ValStringDimensions(font_size, label, val_string) ==
    LET size == IF label.some THEN label.size ELSE font_size
        slot_w == ValueGlyphSlotWidth(size)
    IN <<slot_w * Len(val_string), size>>

\* rectangle::is_over: axis-aligned containment, half-open on the far edges
RectangleIsOver(pos, mouse_pos, width, height) ==
    /\ mouse_pos.x >= pos.x
    /\ mouse_pos.x < pos.x + width
    /\ mouse_pos.y >= pos.y
    /\ mouse_pos.y < pos.y + height

\* is_over: the scan of the slots, left to right, slot_pos.x += slot_w
RECURSIVE SlotScan(_, _, _, _, _, _)
SlotScan(i, slot_pos, mouse_pos, slot_w, rect_h, val_string_len) ==
    IF i >= val_string_len THEN Rect
    ELSE IF RectangleIsOver(slot_pos, mouse_pos, slot_w, rect_h)
         THEN ValueGlyph(i, mouse_pos.y)
    ELSE SlotScan(i + 1, Point(slot_pos.x + slot_w, slot_pos.y), mouse_pos,
                  slot_w, rect_h, val_string_len)

\* is_over without the test of the outer rectangle
IsOverNoOuter(pos, frame_w, mouse_pos, rect_w, rect_h, l_pos, label_w, label_h, val_string_w, val_string_h, val_string_len) ==
    IF RectangleIsOver(l_pos, mouse_pos, label_w, label_h) THEN LabelGlyphs
    ELSE
      LET frame_w2 == frame_w * 2
          slot_rect_pos == Point(l_pos.x + label_w, pos.y + frame_w)
      IN
      IF ~RectangleIsOver(slot_rect_pos, mouse_pos, val_string_w, rect_h - frame_w2)
      THEN Rect
      ELSE
        SlotScan(0, slot_rect_pos, mouse_pos, ValueGlyphSlotWidth(val_string_h),
                 rect_h, val_string_len)

\* is_over: None (NoElem), or the element under the pointer
IsOver(pos, frame_w, mouse_pos, rect_w, rect_h, l_pos, label_w, label_h, val_string_w, val_string_h, val_string_len) ==
    IF ~RectangleIsOver(pos, mouse_pos, rect_w, rect_h) THEN NoElem
    ELSE IF RectangleIsOver(l_pos, mouse_pos, label_w, label_h) THEN LabelGlyphs
    ELSE
      LET frame_w2 == frame_w * 2
          slot_rect_pos == Point(l_pos.x + label_w, pos.y + frame_w)
      IN
      IF ~RectangleIsOver(slot_rect_pos, mouse_pos, val_string_w, rect_h - frame_w2)
      THEN Rect
      ELSE
        SlotScan(0, slot_rect_pos, mouse_pos, ValueGlyphSlotWidth(val_string_h),
                 rect_h, val_string_len)

----------------------------------------------------------------------------
(* Interaction state machine *)

\* get_new_state clicking the element that was highlighted, wherever the
\* pointer now is
GetNewStateClickHighlighted(is_over_elem, prev, mouse) ==
    LET some == is_over_elem.kind # "None"
        KeepClick(p_elem) ==
            IF p_elem.kind = "ValueGlyph"
            THEN Clicked(ValueGlyph(p_elem.idx, mouse.pos.y))
            ELSE Clicked(p_elem)
    IN
    IF some /\ mouse.left = "Up" THEN Highlighted(is_over_elem)
    ELSE IF prev.tag = "Highlighted" /\ mouse.left = "Down" THEN Clicked(prev.elem)
    ELSE IF prev.tag = "Clicked" /\ mouse.left = "Down" THEN KeepClick(prev.elem)
    ELSE Normal

\* get_new_state starting a click from Normal as it does from Highlighted
GetNewStateColdClick(is_over_elem, prev, mouse) ==
    LET some == is_over_elem.kind # "None"
        KeepClick(p_elem) ==
            IF p_elem.kind = "ValueGlyph"
            THEN Clicked(ValueGlyph(p_elem.idx, mouse.pos.y))
            ELSE Clicked(p_elem)
    IN
    IF some /\ mouse.left = "Up" THEN Highlighted(is_over_elem)
    ELSE IF some /\ prev.tag \in {"Normal", "Highlighted"} /\ mouse.left = "Down"
         THEN Clicked(is_over_elem)
    ELSE IF prev.tag = "Clicked" /\ mouse.left = "Down" THEN KeepClick(prev.elem)
    ELSE Normal

\* get_new_state without the arm (None, Clicked(p_elem), Down)
GetNewStateDropOutside(is_over_elem, prev, mouse) ==
    LET some == is_over_elem.kind # "None"
        KeepClick(p_elem) ==
            IF p_elem.kind = "ValueGlyph"
            THEN Clicked(ValueGlyph(p_elem.idx, mouse.pos.y))
            ELSE Clicked(p_elem)
    IN
    IF some /\ prev.tag = "Normal" /\ mouse.left = "Down" THEN Normal
    ELSE IF some /\ mouse.left = "Up" THEN Highlighted(is_over_elem)
    ELSE IF some /\ prev.tag = "Highlighted" /\ mouse.left = "Down"
         THEN Clicked(is_over_elem)
    ELSE IF some /\ prev.tag = "Clicked" /\ mouse.left = "Down"
         THEN KeepClick(prev.elem)
    ELSE Normal

\* get_new_state with the Clicked arms ahead of the (Some(elem), _, Up) arm
\* and not looking at the button
GetNewStateStickyClick(is_over_elem, prev, mouse) ==
    LET some == is_over_elem.kind # "None"
        KeepClick(p_elem) ==
            IF p_elem.kind = "ValueGlyph"
            THEN Clicked(ValueGlyph(p_elem.idx, mouse.pos.y))
            ELSE Clicked(p_elem)
    IN
    IF some /\ prev.tag = "Normal" /\ mouse.left = "Down" THEN Normal
    ELSE IF some /\ prev.tag = "Clicked" THEN KeepClick(prev.elem)
    ELSE IF some /\ mouse.left = "Up" THEN Highlighted(is_over_elem)
    ELSE IF some /\ prev.tag = "Highlighted" /\ mouse.left = "Down"
         THEN Clicked(is_over_elem)
    ELSE IF ~some /\ prev.tag = "Clicked" /\ mouse.left = "Down"
         THEN KeepClick(prev.elem)
    ELSE Normal

\* get_new_state: the match arms in their order
GetNewState(is_over_elem, prev, mouse) ==
    LET some == is_over_elem.kind # "None"
        KeepClick(p_elem) ==
            IF p_elem.kind = "ValueGlyph"
            THEN Clicked(ValueGlyph(p_elem.idx, mouse.pos.y))
            ELSE Clicked(p_elem)
    IN
    IF some /\ prev.tag = "Normal" /\ mouse.left = "Down" THEN Normal
    ELSE IF some /\ mouse.left = "Up" THEN Highlighted(is_over_elem)
    ELSE IF some /\ prev.tag = "Highlighted" /\ mouse.left = "Down"
         THEN Clicked(is_over_elem)
    ELSE IF some /\ prev.tag = "Clicked" /\ mouse.left = "Down"
         THEN KeepClick(prev.elem)
    ELSE IF ~some /\ prev.tag = "Clicked" /\ mouse.left = "Down"
         THEN KeepClick(prev.elem)
    ELSE Normal

----------------------------------------------------------------------------
(* Value adjustment *)

\* (10f32).powf(power as f32) as f64 in units of 1/One; infinite for the
\* exponent of a wrapped uint subtraction
PowF(power, wrapped) ==
    IF wrapped THEN [inf |-> TRUE, d |-> 0]
    ELSE IF power >= 0 THEN [inf |-> FALSE, d |-> One * Pow(10, power)]
    ELSE [inf |-> FALSE, d |-> One \div Pow(10, -power)]

\* the step of get_new_value without the clamp
SteppedUnclamped(val_f, delta, y_ord, min_f, max_f) ==
    IF y_ord = "Less"
    THEN (IF delta.inf THEN max_f + One ELSE val_f + delta.d)
    ELSE IF y_ord = "Greater"
    THEN (IF delta.inf THEN min_f - One ELSE val_f - delta.d)
    ELSE val_f

\* clamp(val_f + delta, min_f, max_f) on Less, clamp(val_f - delta, ...) on Greater
Stepped(val_f, delta, y_ord, min_f, max_f) ==
    IF y_ord = "Less"
    THEN (IF delta.inf THEN max_f ELSE Clamp(val_f + delta.d, min_f, max_f))
    ELSE IF y_ord = "Greater"
    THEN (IF delta.inf THEN min_f ELSE Clamp(val_f - delta.d, min_f, max_f))
    ELSE val_f

\* the exponent without the step `if power < -1 { power += 1; }`
SlotPowerNoGuard(idx, val_string) ==
    LET dec_idx == DecimalPos(val_string) IN
    IF dec_idx = -1
    THEN LET power == Len(val_string) - idx - 1 IN
         [power |-> power, wrapped |-> power < 0]
    ELSE [power |-> dec_idx - idx - 1, wrapped |-> FALSE]

\* the exponent get_new_value gives slot idx of val_string: [power, wrapped]
SlotPower(idx, val_string) ==
    LET dec_idx == DecimalPos(val_string) IN
    IF dec_idx = -1
    THEN LET power == Len(val_string) - idx - 1 IN
         [power |-> power, wrapped |-> power < 0]
    ELSE LET power == dec_idx - idx - 1 IN
         [power |-> IF power < -1 THEN power + 1 ELSE power, wrapped |-> FALSE]

\* the narrowest integer T: i8
TypeMin == -128
TypeMax == 127

\* FromPrimitive::from_f64 as an Option: None for a number outside the range
\* of an integer T
FromF64Checked(kind, x) ==
    IF kind = "int" /\ (x < TypeMin * One \/ x > TypeMax * One)
    THEN [ok |-> FALSE, v |-> 0]
    ELSE [ok |-> TRUE, v |-> FromF64(kind, x)]

\* get_new_value with the outcome of the last unwrap: ok = FALSE is the panic
GetNewValueChecked(kind, val, min, max, idx, y_ord, val_string) ==
    IF y_ord = "Equal" THEN [ok |-> TRUE, v |-> val]
    ELSE LET p == SlotPower(idx, val_string)
             new_val_f == Stepped(val, PowF(p.power, p.wrapped), y_ord, min, max)
         IN FromF64Checked(kind, new_val_f)

\* get_new_value
GetNewValue(kind, val, min, max, idx, y_ord, val_string) ==
    IF y_ord = "Equal" THEN val
    ELSE LET p == SlotPower(idx, val_string)
             new_val_f == Stepped(val, PowF(p.power, p.wrapped), y_ord, min, max)
         IN FromF64(kind, new_val_f)

----------------------------------------------------------------------------
(* The widget parameters and the inputs of a frame *)

NoLabel == [some |-> FALSE, size |-> 0, w |-> 0]
Label(size, w) == [some |-> TRUE, size |-> size, w |-> w]

\* The dialers checked: an unsigned integer one, a signed integer one with a
\* frame and a label, a floating one with two decimals, and an integer one
\* shown with one decimal.  min, max are in units of 1/One.
Configs ==
    { [kind |-> "int", min |-> 0, max |-> MaxInt * One, precision |-> 0,
       frame_w |-> 0, label |-> NoLabel],
      [kind |-> "int", min |-> -NegMin * One, max |-> MaxInt * One, precision |-> 0,
       frame_w |-> 2, label |-> Label(24, 36)],
      [kind |-> "float", min |-> 0, max |-> MaxFrac, precision |-> 2,
       frame_w |-> 0, label |-> NoLabel],
      [kind |-> "int", min |-> 0, max |-> MaxSmall * One, precision |-> 1,
       frame_w |-> 2, label |-> NoLabel] }

\* the values the caller may hold on its own: the bounds, their neighbours
\* inside, and one step outside on either side
CallerValues(c) ==
    LET u == IF c.kind = "int" THEN One ELSE 1
    IN {c.min - u, c.min, c.min + u, c.max - u, c.max, c.max + u}

\* pointer columns: one every 18 pixels, from left of the widget to right of it
MouseXs == {18 * k - 13 : k \in 0..9}
\* pointer rows: one above the widget and NumRows inside it
MouseYs == {-2} \cup {6 + 12 * k : k \in 0..(NumRows - 1)}

Mice == {MouseState(x, y, left) : x \in MouseXs, y \in MouseYs, left \in {"Up", "Down"}}

----------------------------------------------------------------------------
(* The frame *)

\* number_dialer storing the caller's value as it is given
NumberDialerUnclamped(v, min, max) == v

\* NumberDialerBuilder::number_dialer: the value the context is built with
NumberDialer(v, min, max) == Clamp(v, min, max)

\* draw: val_string_len
ValStringLen(max, precision) ==
    Len(ToString(max)) + (IF precision = 0 THEN 0 ELSE 1 + precision)

\* draw: the hit test on the frame's layout
DrawIsOver(c, mouse, val_string) ==
    LET pos == Point(0, 0)
        ld == LabelDimensions(c.label)
        label_w == ld[1]
        label_h == ld[2]
        vd == ValStringDimensions(FontSize, c.label, val_string)
        val_string_w == vd[1]
        val_string_h == vd[2]
        label_x == pos.x + (Width - (label_w + val_string_w)) \div 2
        label_y == pos.y + (Height - FontSize) \div 2
        l_pos == Point(label_x, label_y)
    IN IsOver(pos, c.frame_w, mouse.pos, Width, Height, l_pos, label_w, label_h,
              val_string_w, val_string_h, Len(val_string))

\* draw adjusting the value in the press frame too
DrawNewValOnPress(c, self_value, prev, new_state, val_string) ==
    IF /\ prev.tag \in {"Highlighted", "Clicked"} /\ new_state.tag = "Clicked"
       /\ prev.elem.kind = "ValueGlyph" /\ new_state.elem.kind = "ValueGlyph"
    THEN GetNewValue(c.kind, self_value, c.min, c.max, prev.elem.idx,
                     CompareF64s(new_state.elem.y, prev.elem.y), val_string)
    ELSE self_value

\* draw: the new value from the initial state and the new state
DrawNewVal(c, self_value, prev, new_state, val_string) ==
    IF /\ prev.tag = "Clicked" /\ new_state.tag = "Clicked"
       /\ prev.elem.kind = "ValueGlyph" /\ new_state.elem.kind = "ValueGlyph"
    THEN GetNewValue(c.kind, self_value, c.min, c.max, prev.elem.idx,
                     CompareF64s(new_state.elem.y, prev.elem.y), val_string)
    ELSE self_value

\* draw: compare_f64s(new_y, y) of a frame that calls get_new_value, "None"
\* of a frame that does not
DrawYOrd(prev, new_state) ==
    IF /\ prev.tag = "Clicked" /\ new_state.tag = "Clicked"
       /\ prev.elem.kind = "ValueGlyph" /\ new_state.elem.kind = "ValueGlyph"
    THEN CompareF64s(new_state.elem.y, prev.elem.y)
    ELSE "None"

\* draw calling the callback only for a changed value
DrawCallsOnChangeOnly(self_value, new_val, prev, new_state) ==
    self_value # new_val

\* draw: whether the callback is called
DrawCalls(self_value, new_val, prev, new_state) ==
    \/ self_value # new_val
    \/ prev.tag = "Highlighted" /\ new_state.tag = "Clicked"
    \/ prev.tag = "Clicked" /\ new_state.tag = "Highlighted"

NoFrame ==
    [drawn |-> FALSE, prev_tag |-> "Normal", mouse_y |-> 0, left |-> "Up",
     over |-> NoElem, new_val |-> 0, val_string |-> <<>>, calls |-> 0,
     y_ord |-> "None"]

NoProbe == [x |-> 0, y |-> 0, done |-> FALSE, elem |-> NoElem]

NoParse == [ok |-> FALSE, v |-> 0]

NoCall ==
    [stage |-> 0, text |-> <<>>, parsed |-> NoParse, again |-> <<>>,
     idx |-> 0, y_ord |-> "None", power |-> 0, result |-> NoParse]

\* One frame: the caller builds the widget with its value and draws it.  The
\* callback, when called, stores the new value in the caller's variable.
\* Each local of draw is bound once, in the order draw computes them.
Draw(mouse) ==
    \E self_value \in {NumberDialer(value, cfg.min, cfg.max)} :
    \E val_string_len \in {ValStringLen(cfg.max, cfg.precision)} :
    \E val_string \in {CreateValString(self_value, val_string_len, cfg.precision)} :
    \E is_over_elem \in {DrawIsOver(cfg, mouse, val_string)} :
    \E new_state \in {GetNewState(is_over_elem, state, mouse)} :
    \E new_val \in {DrawNewVal(cfg, self_value, state, new_state, val_string)} :
    \E shown \in {IF self_value # new_val
                  THEN CreateValString(new_val, val_string_len, cfg.precision)
                  ELSE val_string} :
    \E called \in {DrawCalls(self_value, new_val, state, new_state)} :
       /\ state' = new_state
       /\ value' = IF called THEN new_val ELSE value
       /\ last' = [drawn |-> TRUE, prev_tag |-> state.tag,
                   mouse_y |-> mouse.pos.y, left |-> mouse.left,
                   over |-> is_over_elem, new_val |-> new_val,
                   val_string |-> shown, calls |-> IF called THEN 1 ELSE 0,
                   y_ord |-> DrawYOrd(state, new_state)]
       /\ UNCHANGED <<cfg, probe, call>>

\* Between frames the caller may put any value of its own in its variable.
SetValue ==
    /\ \E v \in CallerValues(cfg) : value' = v
    /\ last' = NoFrame
    /\ UNCHANGED <<cfg, state, probe, call>>

Init ==
    /\ cfg \in Configs
    /\ state = Normal
    /\ value \in CallerValues(cfg)
    /\ last = NoFrame
    /\ probe = NoProbe
    /\ call = NoCall

Next ==
    \/ \E mouse \in Mice : Draw(mouse)
    \/ SetValue

Spec == Init /\ [][Next]_vars

----------------------------------------------------------------------------
(* The hit test on its own: every pixel column, the rows around every edge *)

\* the dialers above and one with a smaller label font and a wider frame
HitConfigs ==
    Configs \cup
    { [kind |-> "int", min |-> 0, max |-> MaxInt * One, precision |-> 0,
       frame_w |-> 3, label |-> Label(16, 24)] }

HitXs == (-2)..(Width + 1)
HitYs == {-1, 0, 1, 2, 3, 11, 12, 27, 28, 35, 36, 44, 45, 46, 47, 48}

\* is_over as draw calls it, for the pointer at probe.x, probe.y
HitTest ==
    /\ ~probe.done
    /\ LET self_value == NumberDialer(value, cfg.min, cfg.max)
           val_string == CreateValString(self_value,
                             ValStringLen(cfg.max, cfg.precision), cfg.precision)
       IN probe' = [probe EXCEPT !.done = TRUE,
                       !.elem = DrawIsOver(cfg, MouseState(probe.x, probe.y, "Up"),
                                           val_string)]
    /\ UNCHANGED <<cfg, state, value, last, call>>

InitHit ==
    /\ cfg \in HitConfigs
    /\ state = Normal
    /\ value \in {cfg.min, cfg.max}
    /\ last = NoFrame
    /\ probe \in {[x |-> x, y |-> y, done |-> FALSE, elem |-> NoElem] :
                    x \in HitXs, y \in HitYs}
    /\ call = NoCall

NextHit == HitTest

SpecHit == InitHit /\ [][NextHit]_vars

----------------------------------------------------------------------------
(* The formatter on its own: a value is formatted, the text is read back as *)
(* a number, and the number is formatted again                              *)

Digits == {Digit(d) : d \in 0..9}

DigitVal(ch) == CHOOSE d \in 0..9 : Digit(d) = ch

RECURSIVE StringToNat(_)
StringToNat(s) ==
    IF s = <<>> THEN 0
    ELSE 10 * StringToNat(SubSeq(s, 1, Len(s) - 1)) + DigitVal(s[Len(s)])

\* Reading a text as a decimal number: an optional leading '-', digits, and
\* at most one '.' among them; any other text is not a number.  The number
\* is in units of 1/One.
FromStr(s) ==
    LET neg == s # <<>> /\ s[1] = "-"
        body == IF neg THEN Tail(s) ELSE s
        dec == DecimalPos(body)
        ip == IF dec = -1 THEN body ELSE SubSeq(body, 1, dec)
        fp == IF dec = -1 THEN <<>> ELSE SubSeq(body, dec + 2, Len(body))
        ok == /\ Len(ip) + Len(fp) > 0
              /\ \A i \in 1..Len(ip) : ip[i] \in Digits
              /\ \A i \in 1..Len(fp) : fp[i] \in Digits
    IN IF ok
       THEN [ok |-> TRUE,
             v |-> (IF neg THEN -1 ELSE 1)
                     * (StringToNat(ip) * One
                        + StringToNat(SubSeq(fp \o Zeros(Scale), 1, Scale)))]
       ELSE NoParse

\* the dialers above, a signed integer one whose max has three digits, a
\* signed floating one, a floating one shown with fewer decimals than its
\* values have, and the floating one with max = 99.99
FormatConfigs ==
    Configs \cup
    { [kind |-> "int", min |-> -NegMin * One, max |-> BigMax * One, precision |-> 0,
       frame_w |-> 0, label |-> NoLabel],
      [kind |-> "float", min |-> -(MaxSmall * One + MaxFrac),
       max |-> MaxInt * One + MaxFrac, precision |-> 2,
       frame_w |-> 0, label |-> NoLabel],
      [kind |-> "float", min |-> 0, max |-> MaxFrac, precision |-> 1,
       frame_w |-> 0, label |-> NoLabel],
      [kind |-> "float", min |-> 0, max |-> 99 * One + 99, precision |-> 2,
       frame_w |-> 0, label |-> NoLabel] }

\* every value of T in [min, max]
ValuesOf(c) == {v \in c.min..c.max : c.kind = "int" => v % One = 0}

\* create_val_string as draw calls it for the value
FormatValue ==
    /\ call.stage = 0
    /\ call' = [call EXCEPT !.stage = 1,
                   !.text = CreateValString(value,
                               ValStringLen(cfg.max, cfg.precision), cfg.precision)]
    /\ UNCHANGED <<cfg, state, value, last, probe>>

\* the text read back as a number
ParseBack ==
    /\ call.stage = 1
    /\ call' = [call EXCEPT !.stage = 2, !.parsed = FromStr(call.text)]
    /\ UNCHANGED <<cfg, state, value, last, probe>>

\* create_val_string for the number read back, same length and precision
FormatAgain ==
    /\ call.stage = 2 /\ call.parsed.ok
    /\ call' = [call EXCEPT !.stage = 3,
                   !.again = CreateValString(call.parsed.v,
                               ValStringLen(cfg.max, cfg.precision), cfg.precision)]
    /\ UNCHANGED <<cfg, state, value, last, probe>>

InitFormat ==
    /\ cfg \in FormatConfigs
    /\ state = Normal
    /\ value \in ValuesOf(cfg)
    /\ last = NoFrame
    /\ probe = NoProbe
    /\ call = NoCall

NextFormat == FormatValue \/ ParseBack \/ FormatAgain

SpecFormat == InitFormat /\ [][NextFormat]_vars

----------------------------------------------------------------------------
(* get_new_value on its own: every value, slot index and ordering *)

\* the dialers above and one over the whole range of the narrowest integer T
AdjustConfigs ==
    Configs \cup
    { [kind |-> "int", min |-> TypeMin * One, max |-> TypeMax * One, precision |-> 0,
       frame_w |-> 0, label |-> NoLabel] }

\* the slot indices tried: those of the longest digit string and one beyond
AdjustSlots == 0..MaxSlot

\* the digit string draw passes to get_new_value for the value
AdjustString(c, v) == CreateValString(v, ValStringLen(c.max, c.precision), c.precision)

\* get_new_value(value, min, max, idx, y_ord, &val_string)
Adjustment ==
    /\ call.stage = 0
    /\ \E val_string \in {AdjustString(cfg, value)} :
         call' = [call EXCEPT !.stage = 1, !.text = val_string,
                     !.power = SlotPower(call.idx, val_string).power,
                     !.result = GetNewValueChecked(cfg.kind, value, cfg.min, cfg.max,
                                                   call.idx, call.y_ord, val_string)]
    /\ UNCHANGED <<cfg, state, value, last, probe>>

\* the exponents kept are those the unit 1/One can hold
InitAdjust ==
    /\ cfg \in AdjustConfigs
    /\ state = Normal
    /\ value \in ValuesOf(cfg)
    /\ last = NoFrame
    /\ probe = NoProbe
    /\ call \in {[NoCall EXCEPT !.idx = i, !.y_ord = o] :
                   i \in AdjustSlots, o \in {"Less", "Equal", "Greater"}}
    /\ SlotPower(call.idx, AdjustString(cfg, value)).power >= -Scale

NextAdjust == Adjustment

SpecAdjust == InitAdjust /\ [][NextAdjust]_vars

----------------------------------------------------------------------------
(* Properties *)

\* the step is a frame
Frame == last'.drawn

\* the same element, a ValueGlyph being the same when its slot index is
SameElement(e, f) == e.kind = f.kind /\ e.idx = f.idx

\* the number of characters after the first '.' of s, -1 when there is none
DigitsAfterPoint(s) ==
    IF DecimalPos(s) = -1 THEN -1 ELSE Len(s) - DecimalPos(s) - 1

\* C1: the value a frame commits (displays and gives to the callback) is
\* within [min, max], whatever value the caller supplied.
C1_ValueInBounds ==
    last.drawn => cfg.min <= last.new_val /\ last.new_val <= cfg.max

\* C1 witness: a frame drawn with a caller value above max commits max.
C1_Witness ==
    last.drawn /\ value > cfg.max /\ last.new_val = cfg.max

\* C2 as claimed: from Highlighted(e) a frame with the button Down gives
\* Clicked(e), whatever the hit test returns.
C2_ClicksHighlightedElement ==
    [][(Frame /\ state.tag = "Highlighted" /\ last'.left = "Down")
         => state' = Clicked(state.elem)]_vars

\* C2 amended: from Highlighted(_) a frame with the button Down gives
\* Clicked(e') for the element e' hit in that frame, and Normal when the hit
\* test returns None.
C2_ClicksHitElement ==
    [][(Frame /\ state.tag = "Highlighted" /\ last'.left = "Down")
         => state' = IF last'.over.kind # "None"
                     THEN Clicked(last'.over) ELSE Normal]_vars

\* C2 witness: a press frame that followed a Highlighted state.
C2_Witness ==
    /\ last.drawn /\ last.prev_tag = "Highlighted" /\ last.left = "Down"
    /\ state.tag = "Clicked"

\* C3 as claimed: Clicked(e) only follows Highlighted or Clicked on the same
\* element e (the same slot index for a digit).
C3_ClickedOnlyOnSameElement ==
    [][(Frame /\ state'.tag = "Clicked")
         => /\ state.tag \in {"Highlighted", "Clicked"}
            /\ SameElement(state.elem, state'.elem)]_vars

\* C3 amended: Clicked(e) only follows Clicked on the same element e (the
\* same slot index), or Highlighted on any element with e the element hit in
\* this frame.
C3_ClickedOnlyFromClickOrHit ==
    [][(Frame /\ state'.tag = "Clicked")
         => \/ state.tag = "Clicked" /\ SameElement(state.elem, state'.elem)
            \/ /\ state.tag = "Highlighted"
               /\ last'.over.kind # "None"
               /\ state'.elem = last'.over]_vars

\* C3 witness: a digit slot clicked in the frame after a Highlighted state.
C3_Witness ==
    /\ last.drawn /\ last.prev_tag = "Highlighted"
    /\ state.tag = "Clicked" /\ state.elem.kind = "ValueGlyph"

\* C4: a Clicked state stays Clicked in a frame with the button Down, hit or
\* no hit: a ValueGlyph keeps its slot index and takes the pointer's Y,
\* Rect and LabelGlyphs are kept as they are.
C4_ClickPersists ==
    [][(Frame /\ state.tag = "Clicked" /\ last'.left = "Down")
         => state' = IF state.elem.kind = "ValueGlyph"
                     THEN Clicked(ValueGlyph(state.elem.idx, last'.mouse_y))
                     ELSE state]_vars

\* C4 witness: a digit drag continued with the pointer off the widget.
C4_Witness ==
    /\ last.drawn /\ last.prev_tag = "Clicked" /\ last.left = "Down"
    /\ last.over = NoElem
    /\ state.tag = "Clicked" /\ state.elem.kind = "ValueGlyph"

\* C5: a frame with the button Up never ends Clicked: it ends Highlighted(e)
\* when the hit test returns Some(e) and Normal when it returns None.
C5_UpNeverClicked ==
    (last.drawn /\ last.left = "Up")
      => state = IF last.over.kind # "None" THEN Highlighted(last.over) ELSE Normal

\* C5 witness: a release over the widget after a Clicked state.
C5_Witness ==
    /\ last.drawn /\ last.left = "Up" /\ last.prev_tag = "Clicked"
    /\ state.tag = "Highlighted"

\* C6: from Normal a frame with the button Down ends Normal whatever is hit;
\* Clicked only follows Highlighted or Clicked, and Highlighted is only
\* entered with the button Up over an element.
C6_NoColdClick ==
    /\ (last.drawn /\ last.prev_tag = "Normal" /\ last.left = "Down")
         => state = Normal
    /\ (last.drawn /\ state.tag = "Clicked")
         => last.prev_tag \in {"Highlighted", "Clicked"}
    /\ (last.drawn /\ state.tag = "Highlighted")
         => last.left = "Up" /\ last.over.kind # "None"

\* C6 witness: the button Down over a digit slot in a frame that began Normal.
C6_Witness ==
    /\ last.drawn /\ last.prev_tag = "Normal" /\ last.left = "Down"
    /\ last.over.kind = "ValueGlyph" /\ state = Normal

\* the rectangles of the layout draw passes to is_over, for the probed frame
ProbeLayout ==
    LET self_value == NumberDialer(value, cfg.min, cfg.max)
        val_string == CreateValString(self_value,
                          ValStringLen(cfg.max, cfg.precision), cfg.precision)
        ld == LabelDimensions(cfg.label)
        vd == ValStringDimensions(FontSize, cfg.label, val_string)
        label_x == (Width - (ld[1] + vd[1])) \div 2
        label_y == (Height - FontSize) \div 2
        m == Point(probe.x, probe.y)
    IN [outer |-> RectangleIsOver(Point(0, 0), m, Width, Height),
        label |-> RectangleIsOver(Point(label_x, label_y), m, ld[1], ld[2]),
        slots |-> RectangleIsOver(Point(label_x + ld[1], cfg.frame_w), m,
                                  vd[1], Height - 2 * cfg.frame_w),
        len |-> Len(val_string)]

\* C7: is_over returns exactly one of None, Rect, LabelGlyphs, ValueGlyph(i):
\* None exactly when the pointer is outside the outer rectangle, LabelGlyphs
\* only inside the outer and the label rectangle, a ValueGlyph only inside
\* the outer rectangle, outside the label and inside the value-slot region.
C7_HitTestPartition ==
    probe.done =>
      LET in == ProbeLayout IN
      /\ probe.elem.kind \in {"None", "Rect", "LabelGlyphs", "ValueGlyph"}
      /\ probe.elem.kind = "None" <=> ~in.outer
      /\ probe.elem.kind = "LabelGlyphs" => in.outer /\ in.label
      /\ probe.elem.kind = "ValueGlyph"
           => /\ in.outer /\ ~in.label /\ in.slots
              /\ probe.elem.idx \in 0..(in.len - 1)
              /\ probe.elem.y = probe.y

\* C7 witness: a pointer over a digit slot other than the first.
C7_Witness ==
    probe.done /\ probe.elem.kind = "ValueGlyph" /\ probe.elem.idx > 0

\* C8: the callback is called at most once in a frame, and it is called
\* exactly when the committed value differs from the value the frame was
\* drawn with or the state went Highlighted -> Clicked or Clicked -> Highlighted.
C8_CallbackExactlyOnChangeOrEdge ==
    [][Frame =>
         /\ last'.calls \in {0, 1}
         /\ last'.calls = 1 <=>
              \/ last'.new_val # NumberDialer(value, cfg.min, cfg.max)
              \/ state.tag = "Highlighted" /\ state'.tag = "Clicked"
              \/ state.tag = "Clicked" /\ state'.tag = "Highlighted"]_vars

\* C8 witness: a press frame, which calls the callback with the value unchanged.
C8_Witness ==
    /\ last.drawn /\ last.calls = 1 /\ last.prev_tag = "Highlighted"
    /\ state.tag = "Clicked" /\ last.new_val = value

C10_FixedLength ==
    last.drawn => Len(last.val_string) = ValStringLen(cfg.max, cfg.precision)

\* the step is a frame that calls get_new_value: the state before and the
\* state after are both Clicked on a ValueGlyph
DragFrame ==
    /\ Frame
    /\ state.tag = "Clicked" /\ state.elem.kind = "ValueGlyph"
    /\ state'.tag = "Clicked" /\ state'.elem.kind = "ValueGlyph"

\* C11: a frame drawn with the value at max that drags upward (pointer Y
\* less than the drag-reference Y) on any slot commits max, and one drawn
\* with the value at min that drags downward commits min.
C11_SaturatesAtBounds ==
    [][DragFrame =>
         /\ (NumberDialer(value, cfg.min, cfg.max) = cfg.max
               /\ state'.elem.y < state.elem.y) => last'.new_val = cfg.max
         /\ (NumberDialer(value, cfg.min, cfg.max) = cfg.min
               /\ state'.elem.y > state.elem.y) => last'.new_val = cfg.min]_vars

\* C11 witness: an upward drag frame drawn with the value at max.
C11_Witness ==
    /\ last.drawn /\ last.y_ord = "Less" /\ last.calls = 0
    /\ value = cfg.max /\ last.new_val = cfg.max

\* C12: for every value in [min, max], formatting it, reading the text back
\* as a number and formatting that number again with the same length and
\* precision gives the identical text.
C12_RoundTrip ==
    /\ call.stage = 2 => call.parsed.ok
    /\ call.stage = 3 => call.again = call.text

\* the exponent of the adjust function as specified: stringLength -
\* digitIndex - 1 without a decimal point, decIdx - digitIndex - 1 with one,
\* incremented by 1 if it is below -1
AdjustPower(idx, digits) ==
    LET dec_idx == DecimalPos(digits) IN
    IF dec_idx = -1 THEN Len(digits) - idx - 1
    ELSE IF dec_idx - idx - 1 < -1 THEN dec_idx - idx
    ELSE dec_idx - idx - 1

\* 10^power in units of 1/One
TenTo(power) ==
    IF power >= 0 THEN One * Pow(10, power) ELSE One \div Pow(10, -power)

\* the adjust function as specified
Adjust(v, min, max, idx, y_ord, digits) ==
    IF y_ord = "Less" THEN Clamp(v + TenTo(AdjustPower(idx, digits)), min, max)
    ELSE IF y_ord = "Greater" THEN Clamp(v - TenTo(AdjustPower(idx, digits)), min, max)
    ELSE v

\* the digit string a frame is drawn with, before any adjustment
FrameString ==
    CreateValString(NumberDialer(value, cfg.min, cfg.max),
                    ValStringLen(cfg.max, cfg.precision), cfg.precision)

\* C13: in every frame that calls get_new_value, the value it returns is
\* the value of the adjust function as specified: clamp(value + 10^power)
\* on Less, clamp(value - 10^power) on Greater, value on Equal, with power
\* computed from the slot index and the digit string.
C13_EqualsAdjust ==
    [][DragFrame =>
         last'.new_val = Adjust(NumberDialer(value, cfg.min, cfg.max), cfg.min,
                                cfg.max, state.elem.idx, last'.y_ord,
                                FrameString)]_vars

\* C14: a frame commits exactly the value it was drawn with unless the
\* state before and the state after are both Clicked on a ValueGlyph and the
\* new drag-reference Y differs from the previous one.
C14_ValueChangesOnlyInDrag ==
    [][(Frame /\ ~(DragFrame /\ state'.elem.y # state.elem.y))
         => last'.new_val = NumberDialer(value, cfg.min, cfg.max)]_vars

\* C14 witness: a frame Clicked on a ValueGlyph before and after, with equal
\* Y, drawn with a value strictly between the bounds.
C14_Witness ==
    /\ last.drawn /\ last.y_ord = "Equal"
    /\ cfg.min < value /\ value < cfg.max /\ last.new_val = value

\* the number of digits of the integer part of n
DigitCount(n) == Len(NatToString(Abs(n) \div One))

\* C15: the total length draw passes to the formatter is digits(max) +
\* (1 + precision if precision > 0, else 0); for value = 3.0, min = 0,
\* max = 99.99, precision = 2 the digit string is "03.00".
C15_TotalLengthFromDigits ==
    call.stage >= 1 =>
      /\ ValStringLen(cfg.max, cfg.precision)
           = DigitCount(cfg.max) + (IF cfg.precision > 0 THEN 1 + cfg.precision ELSE 0)
      /\ (cfg.min = 0 /\ cfg.max = 99 * One + 99 /\ cfg.precision = 2
            /\ value = 3 * One)
           => call.text = <<"0", "3", ".", "0", "0">>

\* C16 as claimed: a state other than Normal becomes Normal only in a frame
\* with the button Up and the pointer over no element.
C16_NormalOnlyOnUp ==
    [][(Frame /\ state.tag # "Normal" /\ state'.tag = "Normal")
         => last'.left = "Up" /\ last'.over.kind = "None"]_vars

\* C16 amended: a state other than Normal becomes Normal only in a frame
\* with the pointer over no element, and then with the button Up or, with
\* the button Down, from Highlighted; Clicked never turns into Normal in a
\* frame with the button Down.
C16_NormalOnlyOffWidget ==
    [][(Frame /\ state.tag # "Normal" /\ state'.tag = "Normal")
         => /\ last'.over.kind = "None"
            /\ last'.left = "Up" \/ state.tag = "Highlighted"]_vars

\* C16 witness: Highlighted turns into Normal in a frame with the button
\* Down, the pointer having left the widget.
C16_Witness ==
    /\ last.drawn /\ last.prev_tag = "Highlighted" /\ last.left = "Down"
    /\ last.over.kind = "None" /\ state = Normal

\* C17: get_new_value never aborts: for every value, bounds, slot index and
\* drag direction the conversion of the adjusted result back to T succeeds,
\* so the unwrap returns a value.
C17_NeverAborts ==
    call.stage = 1 => call.result.ok

\* C17 witness: an upward step from the largest value of T, whose sum is
\* outside the range of T before the clamp, returns max.
C17_Witness ==
    /\ call.stage = 1 /\ call.y_ord = "Less"
    /\ value = TypeMax * One /\ cfg.max = value
    /\ call.result = [ok |-> TRUE, v |-> value]

\* the value-slot region of the probed frame: its left edge, the slot width
\* and the number of slots
ProbeSlots ==
    LET self_value == NumberDialer(value, cfg.min, cfg.max)
        val_string == CreateValString(self_value,
                          ValStringLen(cfg.max, cfg.precision), cfg.precision)
        ld == LabelDimensions(cfg.label)
        vd == ValStringDimensions(FontSize, cfg.label, val_string)
    IN [left |-> (Width - (ld[1] + vd[1])) \div 2 + ld[1],
        slot_w |-> ValueGlyphSlotWidth(vd[2]),
        count |-> Len(val_string)]

\* C18: whenever the pointer is inside the value-slot region (and the scan
\* of the slots is reached), is_over returns ValueGlyph(i, pointerY) with
\* i = floor((pointerX - regionLeft) / slotWidth) and 0 <= i < digitCount;
\* the Rect after the scan is never returned.
C18_SlotIndexByDivision ==
    (probe.done /\ ProbeLayout.outer /\ ~ProbeLayout.label /\ ProbeLayout.slots)
      => /\ probe.elem = ValueGlyph((probe.x - ProbeSlots.left) \div ProbeSlots.slot_w,
                                    probe.y)
         /\ probe.elem.idx \in 0..(ProbeSlots.count - 1)

\* C18 witness: the pointer on the last pixel column of the region is over
\* the last slot.
C18_Witness ==
    /\ probe.done /\ ProbeLayout.slots
    /\ probe.x = ProbeSlots.left + ProbeSlots.slot_w * ProbeSlots.count - 1
    /\ probe.elem.kind = "ValueGlyph" /\ probe.elem.idx = ProbeSlots.count - 1

\* C19: after every frame the slot index carried by Highlighted(ValueGlyph(i, _))
\* or Clicked(ValueGlyph(i, _)) is less than the length of the current digit
\* string, so stringLength - i - 1 does not underflow in get_new_value.
C19_IndexInsideString ==
    (last.drawn /\ state.tag \in {"Highlighted", "Clicked"}
       /\ state.elem.kind = "ValueGlyph")
      => state.elem.idx < Len(last.val_string)

\* the value a step of 10^power in the direction y_ord gives, clamped and
\* converted back to T
StepBy(power, v, y_ord) ==
    FromF64(cfg.kind,
            IF y_ord = "Less" THEN Clamp(v + TenTo(power), cfg.min, cfg.max)
            ELSE IF y_ord = "Greater" THEN Clamp(v - TenTo(power), cfg.min, cfg.max)
            ELSE v)

\* C20: when the digit string has a decimal point, a drag on the slot of the
\* point itself (digitIndex = decIdx) has power -1 and steps the value by
\* 10^-1, as a drag on the slot right after it does; a drag on the slot
\* decIdx + k (k >= 1) has power -k.
C20_PointSlotIsTenths ==
    [][(DragFrame /\ DecimalPos(FrameString) # -1
           /\ state.elem.idx >= DecimalPos(FrameString))
         => \E k \in {state.elem.idx - DecimalPos(FrameString)} :
            \E power \in {IF k = 0 THEN -1 ELSE -k} :
              /\ SlotPower(state.elem.idx, FrameString)
                   = [power |-> power, wrapped |-> FALSE]
              /\ last'.new_val
                   = StepBy(power, NumberDialer(value, cfg.min, cfg.max), last'.y_ord)]_vars

\* C20 witness: an upward drag on the slot of the decimal point has added
\* one tenth to the value.
C20_Witness ==
    /\ last.drawn /\ last.y_ord = "Less" /\ last.calls = 1
    /\ state.tag = "Clicked" /\ state.elem.kind = "ValueGlyph"
    /\ DecimalPos(last.val_string) = state.elem.idx
    /\ cfg.kind = "float" /\ last.new_val = One \div 10 /\ value = last.new_val

====
